---- MODULE Spec2Model ----
(***************************************************************************)
(* Image2Code: a browser application that sends an image and a prompt to a *)
(* generative model N times in parallel and shows the code extracted from  *)
(* each response.  Two variants of the program exist in the repository:    *)
(*   "proxied": pages/index.tsx posts to the /api/generate handler, which  *)
(*              calls the model and extracts an html block;                *)
(*   "direct" : Home.tsx calls the model from the browser and extracts a   *)
(*              javascript block.                                          *)
(* Texts are sequences of one-character strings.                           *)
(***************************************************************************)
EXTENDS Integers, Sequences, FiniteSets, TLC

VARIABLES
    variant,               \* which of the two programs runs
    imageBase64,           \* useState('')
    prompt,                \* useState('') after the mount effect
    savedPrompt,           \* localStorage item 'savedPrompt'
    userInput,             \* useState(''), never set by either page
    concurrentRequests,    \* useState(5)
    loading,               \* useState(false)
    hasStartedGenerating,  \* useState(false)
    showErrorModal,        \* useState(false)
    outputs,               \* useState([]) : sequence of {id, code, fullResponse}
    requests,              \* the promises of the batch built by generateCode
    replacing,             \* the awaited batch was submitted over shown outputs
    response,              \* extractor run: the response text of the model
    extractedCode,         \* extractor run: the value of extractedCode
    views,                 \* the state of the mounted CodePreview components
    clipboard,             \* the text last written to the clipboard
    finalPrompt,           \* prompt run: the text sent to the model
    req,                   \* handler run: the request the handler is called with
    res,                   \* handler run: the answers sent, each with its status
    imageLoads,            \* the image selections started, in order
    selectedSample,        \* useState(null)
    earlier                \* the batches before the last with promises pending

vars == <<variant, imageBase64, prompt, savedPrompt, userInput,
          concurrentRequests, loading, hasStartedGenerating, showErrorModal,
          outputs, requests, replacing, response, extractedCode, views,
          clipboard, finalPrompt, req, res, imageLoads, selectedSample,
          earlier>>

appVars == <<imageBase64, prompt, savedPrompt, userInput, concurrentRequests,
             loading, hasStartedGenerating, showErrorModal, outputs, requests,
             replacing, views, clipboard>>

handlerVars == <<req, res>>

selectionVars == <<imageLoads, selectedSample>>

Variants == {"proxied", "direct"}

\* ------------------------------------------------------------------------
\* Characters and texts
\* ------------------------------------------------------------------------
\* BT stands for the backtick character (U+0060)
BT == "^"
SP == " "
NL == "\n"

WhiteSpace == {SP, NL}

FENCE == <<BT, BT, BT>>
HTML == <<"h", "t", "m", "l">>
JS == <<"j", "s">>
JAVASCRIPT == <<"j", "a", "v", "a", "s", "c", "r", "i", "p", "t">>
CSS == <<"c", "s", "s">>

\* The JavaScript value undefined (a property the object lacks); it is
\* no text (every element of a text is a single character).
Undefined == <<"undefined">>

\* The value extractedCode has before the extractor has run.
NotRun == <<"not run">>

\* The clipboard before the page has written to it.
NoText == <<"no text">>

\* The handler has not been called.
NoRequest == <<"no request">>

\* The JavaScript value null
Null == "null"

\* A property of an object, or an attribute of an element, that is not there
Absent == "absent"

\* s.trim()
Trim(s) ==
    LET keep == {i \in 1..Len(s) : s[i] \notin WhiteSpace}
    IN  IF keep = {} THEN <<>>
        ELSE LET first == CHOOSE i \in keep : \A j \in keep : i <= j
                 last == CHOOSE i \in keep : \A j \in keep : j <= i
             IN  SubSeq(s, first, last)

\* the literal w occurs in t at index i
HasAt(t, i, w) ==
    /\ i + Len(w) - 1 <= Len(t)
    /\ SubSeq(t, i, i + Len(w) - 1) = w

\* index of the first fence of t that starts at or after i, 0 when there is none
FenceFrom(t, i) ==
    LET at == {j \in i..Len(t) : HasAt(t, j, FENCE)}
    IN  IF at = {} THEN 0 ELSE CHOOSE j \in at : \A k \in at : j <= k

\* number of whitespace characters of t starting at index i  (\s* , greedy)
SpaceRun(t, i) ==
    LET stop == {j \in i..Len(t) : t[j] \notin WhiteSpace}
    IN  IF stop = {} THEN Len(t) + 1 - i
        ELSE (CHOOSE j \in stop : \A k \in stop : j <= k) - i

\* The alternatives of the optional group (?:...)? in the order in which the
\* regular expression tries them; the empty alternative comes last.
TagAlternatives(v) ==
    IF v = "proxied" THEN <<HTML, <<>> >> ELSE <<JAVASCRIPT, JS, <<>> >>

\* One attempt of the expression at start index p: the fence, the given tag
\* alternative, w whitespace characters, then the lazy group up to the first
\* closing fence.  The value is the capture, as <<capture>>, or <<>> when the
\* attempt fails.
Attempt(t, p, tag, w) ==
    IF ~ (HasAt(t, p, FENCE) /\ HasAt(t, p + 3, tag)) THEN <<>>
    ELSE LET from == p + 3 + Len(tag) + w
             q == FenceFrom(t, from)
         IN  IF w > SpaceRun(t, p + 3 + Len(tag)) \/ q = 0 THEN <<>>
             ELSE << SubSeq(t, from, q - 1) >>

\* regex.exec(response): the first successful attempt, by start index, then by
\* tag alternative, then by the longest run of whitespace.
RegexExec(v, t) ==
    LET alts == TagAlternatives(v)
        ok == {c \in (1..Len(t)) \X (1..Len(alts)) \X (0..Len(t)) :
                  Attempt(t, c[1], alts[c[2]], c[3]) # <<>>}
        before(c, d) ==
            \/ c[1] < d[1]
            \/ c[1] = d[1] /\ c[2] < d[2]
            \/ c[1] = d[1] /\ c[2] = d[2] /\ c[3] >= d[3]
    IN  IF ok = {} THEN <<>>
        ELSE LET best == CHOOSE c \in ok : \A d \in ok : before(c, d)
             IN  Attempt(t, best[1], alts[best[2]], best[3])

\* mutation: the same fallback in both variants
NoMatchValue_Response(v, t) == t

\* what both variants do when the expression does not match
NoMatchValue(v, t) ==
    IF v = "proxied" THEN <<>> ELSE t

\* const extractedCode = match ? match[1].trim() : <fallback>
ExtractCode(v, t) ==
    LET match == RegexExec(v, t)
    IN  IF match # <<>> THEN Trim(match[1]) ELSE NoMatchValue(v, t)

\* ------------------------------------------------------------------------
\* Response texts given to the extractor
\* ------------------------------------------------------------------------
Pres == {<<>>, <<"a", NL>>, <<"a", SP, "b">>, <<"a", BT, "b", NL>>}
Posts == {<<>>, <<NL, "b">>, <<NL, "b", BT, BT>>}
Mids == {<<NL>>, <<NL, "m", NL>>}
BlockTags == {<<>>, HTML, JS, JAVASCRIPT, CSS}
Bodies == {<<>>, <<NL>>, <<"x">>, <<"x", NL>>, <<"x", BT, "y">>,
           <<SP, "x", SP, "y", NL>>, <<"x", NL, NL, "y", NL, SP>>}
SecondBodies == {<<"z">>, <<"z", NL>>}

\* A tag is separated from the body by whitespace; without a tag the body may
\* follow the fence directly.
Separators(tag) == IF tag = <<>> THEN {<<>>, <<NL>>} ELSE {<<NL>>, <<SP>>}

Blocks == {b \in [tag : BlockTags, sep : {<<>>, <<NL>>, <<SP>>}, body : Bodies] :
              b.sep \in Separators(b.tag)}
SecondBlocks == [tag : {<<>>, HTML, JS}, sep : {<<NL>>}, body : SecondBodies]

\* the opening fence, the tag, the separator and the body of a block
Opened(b) == FENCE \o b.tag \o b.sep \o b.body
\* a whole fenced block
Fenced(b) == Opened(b) \o FENCE

OneBlockParts == [pre : Pres, block : Blocks, post : Posts]
OneBlockText(p) == p.pre \o Fenced(p.block) \o p.post

TwoBlockParts == [pre : {<<>>, <<"a", NL>>}, block : Blocks, mid : Mids,
                  second : SecondBlocks]
TwoBlockText(p) == p.pre \o Fenced(p.block) \o p.mid \o Fenced(p.second)

\* texts without any fence, and texts whose only fence is never closed
NoFenceTexts == {<<>>, <<"a">>, <<SP, "a", NL>>, <<"a", NL, "b">>,
                 <<"a", BT, BT, "b">>, <<BT, BT>>, <<BT, "a", BT>>}
UnclosedParts == [pre : Pres, block : Blocks,
                  post : {<<>>, <<BT>>, <<BT, BT>>}]
UnclosedText(p) == p.pre \o Opened(p.block) \o p.post
NoBlockTexts == NoFenceTexts \cup {UnclosedText(p) : p \in UnclosedParts}

Texts == {OneBlockText(p) : p \in OneBlockParts}
         \cup {TwoBlockText(p) : p \in TwoBlockParts}
         \cup NoBlockTexts

\* ------------------------------------------------------------------------
\* The model call and the /api/generate handler
\* ------------------------------------------------------------------------
\* Largest batch the model explores (the slider itself goes up to SliderMax).
MaxBatch == 3

SliderMin == 1
SliderMax == 10
InitialConcurrentRequests == 5

\* the model call throws; the fetch itself fails
Throws == <<"throws">>
NetworkError == <<"network error">>

\* responses of the model: one with a fenced block, one without
ModelResponses == {FENCE \o <<NL, "x", NL>> \o FENCE, <<"y">>}
ModelOutcomes == ModelResponses \cup {Throws}

\* an object without code and fullResponse, such as {message: ...}
MessageBody == [code |-> Undefined, fullResponse |-> Undefined]

\* return {fullResponse: response, code: extractedCode}
generateCodeFromImage(v, text) ==
    [code |-> ExtractCode(v, text), fullResponse |-> text]

\* !x for a property x of the request body: absent or the empty string
Falsy(x) == x \in {Absent, ""}

\* mutation: an answer of the model without a block is answered as an error
handler_NoBlockIsError(method, body, model) ==
    IF method # "POST"
    THEN [status |-> 405, json |-> MessageBody, modelCalls |-> 0]
    ELSE IF Falsy(body.imageBase64) \/ Falsy(body.prompt)
         THEN [status |-> 400, json |-> MessageBody, modelCalls |-> 0]
    ELSE IF body.userInput = Absent
         THEN [status |-> 500, json |-> MessageBody, modelCalls |-> 0]
    ELSE IF model = Throws
         THEN [status |-> 500, json |-> MessageBody, modelCalls |-> 1]
    ELSE IF RegexExec("proxied", model) = <<>>
         THEN [status |-> 500, json |-> MessageBody, modelCalls |-> 1]
    ELSE [status |-> 200, json |-> generateCodeFromImage("proxied", model),
          modelCalls |-> 1]

\* mutation: the handler without its check of the method
handler_NoMethodCheck(method, body, model) ==
    IF Falsy(body.imageBase64) \/ Falsy(body.prompt)
    THEN [status |-> 400, json |-> MessageBody, modelCalls |-> 0]
    ELSE IF body.userInput = Absent
         THEN [status |-> 500, json |-> MessageBody, modelCalls |-> 0]
    ELSE IF model = Throws
         THEN [status |-> 500, json |-> MessageBody, modelCalls |-> 1]
    ELSE [status |-> 200, json |-> generateCodeFromImage("proxied", model),
          modelCalls |-> 1]

\* handler(req, res): the status and the JSON body of its answer, and the
\* number of model calls it made; model is what the model call does when the
\* handler makes it. With userInput absent, userInput.trim() throws in
\* generateCodeFromImage before the model is called.
handler(method, body, model) ==
    IF method # "POST"
    THEN [status |-> 405, json |-> MessageBody, modelCalls |-> 0]
    ELSE IF Falsy(body.imageBase64) \/ Falsy(body.prompt)
         THEN [status |-> 400, json |-> MessageBody, modelCalls |-> 0]
    ELSE IF body.userInput = Absent
         THEN [status |-> 500, json |-> MessageBody, modelCalls |-> 0]
    ELSE IF model = Throws
         THEN [status |-> 500, json |-> MessageBody, modelCalls |-> 1]
    ELSE [status |-> 200, json |-> generateCodeFromImage("proxied", model),
          modelCalls |-> 1]

\* ------------------------------------------------------------------------
\* The page
\* ------------------------------------------------------------------------
Images == {"data:A", "data:B"}
EditedPrompts == {"", "Q"}
StoredPrompts == {"", "Q"}
EditedCodes == {<<"e">>}

DefaultPrompt(v) == IF v = "proxied" THEN "html prompt" ELSE "p5 prompt"

\* mutation: the request is built with the default prompt, not the current one
NewRequest_DefaultPrompt(img, p, u) ==
    [imageBase64 |-> img, prompt |-> DefaultPrompt(variant), userInput |-> u,
     state |-> "pending", status |-> 0, result |-> MessageBody,
     issued |-> 1, modelCalls |-> IF variant = "direct" THEN 1 ELSE 0,
     modelText |-> NotRun]

\* one promise of the batch, as built from the state read at submission;
\* issued counts how often the request of this slot was issued, modelCalls the
\* model calls made for it (the direct page makes the call when it builds the
\* promise, the proxied page leaves it to the handler), modelText is the
\* response text the model returned for it
NewRequest(img, p, u) ==
    [imageBase64 |-> img, prompt |-> p, userInput |-> u,
     state |-> "pending", status |-> 0, result |-> MessageBody,
     issued |-> 1, modelCalls |-> IF variant = "direct" THEN 1 ELSE 0,
     modelText |-> NotRun]

\* mutation: a fetch that failed is issued again
FetchSettled_Retry(r, o) ==
    IF o = NetworkError THEN [r EXCEPT !.issued = @ + 1]
    ELSE LET answer == handler("POST", [imageBase64 |-> r.imageBase64,
                                        prompt |-> r.prompt,
                                        userInput |-> r.userInput], o)
         IN  [r EXCEPT !.state = "fulfilled", !.status = answer.status,
                       !.result = answer.json, !.modelCalls = answer.modelCalls,
                       !.modelText = IF answer.modelCalls = 1 /\ o # Throws
                                     THEN o ELSE NotRun]

\* fetch('/api/generate', ...).then((res) => res.json()) : the promise is
\* rejected only when the fetch fails (the request does not reach the
\* handler); any answer of the handler fulfils it with the parsed body.
FetchSettled(r, o) ==
    IF o = NetworkError THEN [r EXCEPT !.state = "rejected"]
    ELSE LET answer == handler("POST", [imageBase64 |-> r.imageBase64,
                                        prompt |-> r.prompt,
                                        userInput |-> r.userInput], o)
         IN  [r EXCEPT !.state = "fulfilled", !.status = answer.status,
                       !.result = answer.json, !.modelCalls = answer.modelCalls,
                       !.modelText = IF answer.modelCalls = 1 /\ o # Throws
                                     THEN o ELSE NotRun]

\* generateCodeFromImage(imageBase64, prompt, userInput) called from the page
DirectSettled(r, o) ==
    IF o = Throws THEN [r EXCEPT !.state = "rejected"]
    ELSE [r EXCEPT !.state = "fulfilled",
                   !.result = generateCodeFromImage("direct", o),
                   !.modelText = o]

\* mutation: settled by the first promise that settles (Promise.race)
PromiseAllState_Race(rs) ==
    IF \E i \in 1..Len(rs) : rs[i].state = "rejected" THEN "rejected"
    ELSE IF \E i \in 1..Len(rs) : rs[i].state = "fulfilled" THEN "fulfilled"
    ELSE "pending"

\* Promise.all(requests): rejected as soon as one promise is rejected,
\* fulfilled when all are fulfilled
PromiseAllState(rs) ==
    IF \E i \in 1..Len(rs) : rs[i].state = "rejected" THEN "rejected"
    ELSE IF \A i \in 1..Len(rs) : rs[i].state = "fulfilled" THEN "fulfilled"
    ELSE "pending"

\* mutation: the values in reverse order
PromiseAllValue_Reversed(rs) == [i \in 1..Len(rs) |-> rs[Len(rs) + 1 - i].result]

\* the value of Promise.all: the values of the promises by index
PromiseAllValue(rs) == [i \in 1..Len(rs) |-> rs[i].result]

\* mutation: id: index, the index counted from 0 as map passes it
ResultsToOutputs_IdIsIndex(results) ==
    [i \in 1..Len(results) |->
        [id |-> i - 1, code |-> results[i].code,
         fullResponse |-> results[i].fullResponse]]

\* results.map((result, index) => ({id: index + 1, code, fullResponse}))
\* (indices of a TLA+ sequence start at 1)
ResultsToOutputs(results) ==
    [i \in 1..Len(results) |->
        [id |-> i, code |-> results[i].code,
         fullResponse |-> results[i].fullResponse]]

\* mutation: the changed output is built without the spread of the old one
CodeChanged_NoSpread(prevOutputs, id, newCode) ==
    [i \in 1..Len(prevOutputs) |->
        IF prevOutputs[i].id = id
        THEN [id |-> id, code |-> newCode, fullResponse |-> Undefined]
        ELSE prevOutputs[i]]

\* prevOutputs.map((output) => output.id === id ? {...output, code: newCode} : output)
CodeChanged(prevOutputs, id, newCode) ==
    [i \in 1..Len(prevOutputs) |->
        IF prevOutputs[i].id = id
        THEN [prevOutputs[i] EXCEPT !.code = newCode]
        ELSE prevOutputs[i]]

Init ==
    /\ variant \in Variants
    /\ imageBase64 = ""
    /\ \E stored \in StoredPrompts :
          /\ prompt = (IF stored # "" THEN stored ELSE DefaultPrompt(variant))
          /\ savedPrompt = prompt
    /\ userInput = ""
    /\ concurrentRequests = InitialConcurrentRequests
    /\ loading = FALSE
    /\ hasStartedGenerating = FALSE
    /\ showErrorModal = FALSE
    /\ outputs = <<>>
    /\ requests = <<>>
    /\ replacing = FALSE
    /\ views = <<>>
    /\ clipboard = NoText
    /\ response = <<>>
    /\ extractedCode = NotRun
    /\ finalPrompt = NotRun
    /\ req = NoRequest
    /\ res = <<>>
    /\ imageLoads = <<>>
    /\ selectedSample = Null
    /\ earlier = <<>>

\* img.onload of onDrop and handleSampleSelect: setImageBase64(canvas.toDataURL())
ImageLoaded(img) ==
    /\ imageBase64' = img
    /\ UNCHANGED <<variant, prompt, savedPrompt, userInput, concurrentRequests,
                   loading, hasStartedGenerating, showErrorModal, outputs,
                   requests, replacing, response, extractedCode,
                   views, clipboard, finalPrompt,
                   handlerVars, selectionVars, earlier>>

\* mutation: the saving effect without its if (prompt) guard
setPrompt_SavesEmpty(value) ==
    /\ prompt' = value
    /\ savedPrompt' = value
    /\ UNCHANGED <<variant, imageBase64, userInput, concurrentRequests,
                   loading, hasStartedGenerating, showErrorModal, outputs,
                   requests, replacing, response, extractedCode,
                   views, clipboard, finalPrompt,
                   handlerVars, selectionVars, earlier>>

\* the textarea: setPrompt(e.target.value), then the effect that saves it
setPrompt(value) ==
    /\ prompt' = value
    /\ savedPrompt' = (IF value # "" THEN value ELSE savedPrompt)
    /\ UNCHANGED <<variant, imageBase64, userInput, concurrentRequests,
                   loading, hasStartedGenerating, showErrorModal, outputs,
                   requests, replacing, response, extractedCode,
                   views, clipboard, finalPrompt,
                   handlerVars, selectionVars, earlier>>

\* the slider: setConcurrentRequests(Number(e.target.value))
setConcurrentRequests(n) ==
    /\ n \in SliderMin..SliderMax
    /\ n <= MaxBatch
    /\ concurrentRequests' = n
    /\ UNCHANGED <<variant, imageBase64, prompt, savedPrompt, userInput,
                   loading, hasStartedGenerating, showErrorModal, outputs,
                   requests, replacing, response, extractedCode,
                   views, clipboard, finalPrompt,
                   handlerVars, selectionVars, earlier>>

\* mutation: generateCode without setOutputs([])
generateCode_KeepsOutputs ==
    IF imageBase64 = ""
    THEN UNCHANGED vars
    ELSE /\ loading' = TRUE
         /\ hasStartedGenerating' = TRUE
         /\ outputs' = outputs
         /\ replacing' = (outputs # <<>>)
         /\ views' = <<>>
         /\ requests' = [i \in 1..concurrentRequests |->
                            NewRequest(imageBase64, prompt, userInput)]
         /\ UNCHANGED <<variant, imageBase64, prompt, savedPrompt, userInput,
                        concurrentRequests, showErrorModal, response,
                        extractedCode, clipboard, finalPrompt,
                        handlerVars, selectionVars>>

\* mutation: Array(concurrentRequests - 1), one request too few
generateCode_OneFewer ==
    IF imageBase64 = ""
    THEN UNCHANGED vars
    ELSE /\ loading' = TRUE
         /\ hasStartedGenerating' = TRUE
         /\ outputs' = <<>>
         /\ replacing' = (outputs # <<>>)
         /\ views' = <<>>
         /\ requests' = [i \in 1..(concurrentRequests - 1) |->
                            NewRequest(imageBase64, prompt, userInput)]
         /\ UNCHANGED <<variant, imageBase64, prompt, savedPrompt, userInput,
                        concurrentRequests, showErrorModal, response,
                        extractedCode, clipboard, finalPrompt,
                        handlerVars, selectionVars>>

\* generateCode up to its await
generateCode ==
    IF imageBase64 = ""
    THEN UNCHANGED vars
    ELSE /\ loading' = TRUE
         /\ hasStartedGenerating' = TRUE
         /\ outputs' = <<>>
         /\ replacing' = (outputs # <<>>)
         /\ views' = <<>>
         /\ requests' = [i \in 1..concurrentRequests |->
                            NewRequest(imageBase64, prompt, userInput)]
         /\ UNCHANGED <<variant, imageBase64, prompt, savedPrompt, userInput,
                        concurrentRequests, showErrorModal, response,
                        extractedCode, clipboard, finalPrompt,
                        handlerVars, selectionVars>>

\* the Generate button, disabled={!imageBase64 || loading}
ClickGenerate ==
    /\ imageBase64 # ""
    /\ ~ loading
    /\ concurrentRequests <= MaxBatch
    /\ generateCode
    /\ UNCHANGED earlier

\* useState(false) of showCode, showReasoning and isCopied in a CodePreview
InitialView == [showCode |-> FALSE, showReasoning |-> FALSE, isCopied |-> FALSE]

\* outputs.map((output) => <CodePreview key={output.id} .../>), rendered when
\* not loading: one newly mounted CodePreview per output
Mounted(outs) == [i \in 1..Len(outs) |-> InitialView]

\* mutation: setLoading(false) at the end of the try block, not in finally
Resume_NoFinally(rs) ==
    IF loading /\ PromiseAllState(rs) = "fulfilled"
    THEN /\ outputs' = ResultsToOutputs(PromiseAllValue(rs))
         /\ views' = Mounted(outputs')
         /\ loading' = FALSE
         /\ replacing' = FALSE
         /\ UNCHANGED showErrorModal
    ELSE IF loading /\ PromiseAllState(rs) = "rejected" /\ ~ showErrorModal
    THEN /\ showErrorModal' = TRUE
         /\ replacing' = FALSE
         /\ UNCHANGED <<outputs, loading, views>>
    ELSE UNCHANGED <<outputs, loading, showErrorModal, replacing, views>>

\* generateCode after its await, run when the promise of Promise.all settles:
\* setOutputs(...) or the catch block, then finally; the render that follows
\* mounts a CodePreview for every output
Resume(rs) ==
    IF loading /\ PromiseAllState(rs) = "fulfilled"
    THEN /\ outputs' = ResultsToOutputs(PromiseAllValue(rs))
         /\ views' = Mounted(outputs')
         /\ loading' = FALSE
         /\ replacing' = FALSE
         /\ UNCHANGED showErrorModal
    ELSE IF loading /\ PromiseAllState(rs) = "rejected"
    THEN /\ showErrorModal' = TRUE
         /\ loading' = FALSE
         /\ replacing' = FALSE
         /\ UNCHANGED <<outputs, views>>
    ELSE UNCHANGED <<outputs, loading, showErrorModal, replacing, views>>

\* request i of the batch settles with one of the given outcomes; the page
\* resumes generateCode in the same turn when that settles the batch
RequestSettlesWith(i, outcomes) ==
    /\ i \in 1..Len(requests)
    /\ requests[i].state = "pending"
    /\ \E o \in outcomes :
          /\ variant = "direct" => o # NetworkError
          /\ requests' = [requests EXCEPT ![i] =
                             IF variant = "proxied"
                             THEN FetchSettled(requests[i], o)
                             ELSE DirectSettled(requests[i], o)]
    /\ Resume(requests')
    /\ UNCHANGED <<variant, imageBase64, prompt, savedPrompt, userInput,
                   concurrentRequests, hasStartedGenerating, response,
                   extractedCode, clipboard, finalPrompt,
                   handlerVars, selectionVars, earlier>>

\* request i of the batch settles, with any outcome
RequestSettles(i) == RequestSettlesWith(i, ModelOutcomes \cup {NetworkError})

\* handleCodeChange(id, newCode)
handleCodeChange(id, newCode) ==
    /\ outputs' = CodeChanged(outputs, id, newCode)
    /\ UNCHANGED <<variant, imageBase64, prompt, savedPrompt, userInput,
                   concurrentRequests, loading, hasStartedGenerating,
                   showErrorModal, requests, replacing, response,
                   extractedCode, views, clipboard, finalPrompt,
                   handlerVars, selectionVars, earlier>>

\* the Editor of the CodePreview of one output, shown when not loading:
\* onChange={(value) => onCodeChange(output.id, value || '')}
EditorChange(k, value) ==
    /\ hasStartedGenerating
    /\ ~ loading
    /\ k \in 1..Len(outputs)
    /\ handleCodeChange(outputs[k].id, value)

\* ErrorModal onClose={() => setShowErrorModal(false)}
CloseErrorModal ==
    /\ showErrorModal
    /\ showErrorModal' = FALSE
    /\ UNCHANGED <<variant, imageBase64, prompt, savedPrompt, userInput,
                   concurrentRequests, loading, hasStartedGenerating, outputs,
                   requests, replacing, response, extractedCode,
                   views, clipboard, finalPrompt,
                   handlerVars, selectionVars, earlier>>

Next ==
    \/ \E img \in Images : ImageLoaded(img)
    \/ \E value \in EditedPrompts : setPrompt(value)
    \/ \E n \in SliderMin..SliderMax : setConcurrentRequests(n)
    \/ ClickGenerate
    \/ \E i \in 1..MaxBatch : RequestSettles(i)
    \/ \E k \in 1..MaxBatch, value \in EditedCodes : EditorChange(k, value)
    \/ CloseErrorModal

Spec == Init /\ [][Next]_vars

\* ------------------------------------------------------------------------
\* The page with batches of at most MaxLiveBatch requests, under the
\* assumption that every issued request completes: a pending fetch (or model
\* call) is eventually fulfilled or rejected by the environment.
\* ------------------------------------------------------------------------
MaxLiveBatch == 2

NextLive ==
    \/ \E img \in Images : ImageLoaded(img)
    \/ \E value \in EditedPrompts : setPrompt(value)
    \/ \E n \in SliderMin..MaxLiveBatch : setConcurrentRequests(n)
    \/ (concurrentRequests <= MaxLiveBatch /\ ClickGenerate)
    \/ \E i \in 1..MaxLiveBatch : RequestSettles(i)
    \/ \E k \in 1..MaxLiveBatch, value \in EditedCodes : EditorChange(k, value)
    \/ CloseErrorModal

Fairness == \A i \in 1..MaxLiveBatch : WF_vars(RequestSettles(i))

SpecLive == Init /\ [][NextLive]_vars /\ Fairness

\* ------------------------------------------------------------------------
\* The page with its CodePreview components, for batches of at most
\* MaxViewBatch requests
\* ------------------------------------------------------------------------
MaxViewBatch == 2

\* what a CodePreview renders in its main area:
\* showCode ? Editor : showReasoning ? ReactMarkdown : renderPreview(htmlCode)
Shown(v) ==
    IF v.showCode THEN "code"
    ELSE IF v.showReasoning THEN "reasoning"
    ELSE "preview"

\* the toggle buttons rendered as selected (isSelected of Preview, Reasoning
\* and Code)
Selected(v) ==
    {t \in {"preview", "reasoning", "code"} :
        \/ t = "preview" /\ ~ v.showCode /\ ~ v.showReasoning
        \/ t = "reasoning" /\ v.showReasoning
        \/ t = "code" /\ v.showCode}

\* what a CodePreview presents: the view of its main area and, below it and
\* in every case, the copy button
Presented(v) == {Shown(v), "copy"}

\* the CodePreview of output k is on the page
IsMounted(k) == hasStartedGenerating /\ ~ loading /\ k \in 1..Len(views)

\* mutation: the toggle also shows the code as first extracted
SelectPreview_Rederives(k) ==
    /\ IsMounted(k)
    /\ views' = [views EXCEPT ![k].showCode = FALSE, ![k].showReasoning = FALSE]
    /\ outputs' = [outputs EXCEPT ![k].code = requests[k].result.code]
    /\ UNCHANGED <<variant, imageBase64, prompt, savedPrompt, userInput,
                   concurrentRequests, loading, hasStartedGenerating,
                   showErrorModal, requests, replacing, response,
                   extractedCode, clipboard, finalPrompt,
                   handlerVars, selectionVars, earlier>>

\* the Preview toggle: setShowCode(false); setShowReasoning(false)
SelectPreview(k) ==
    /\ IsMounted(k)
    /\ views' = [views EXCEPT ![k].showCode = FALSE, ![k].showReasoning = FALSE]
    /\ UNCHANGED <<variant, imageBase64, prompt, savedPrompt, userInput,
                   concurrentRequests, loading, hasStartedGenerating,
                   showErrorModal, outputs, requests, replacing, response,
                   extractedCode, clipboard, finalPrompt,
                   handlerVars, selectionVars, earlier>>

\* the Reasoning toggle: setShowCode(false); setShowReasoning(true)
SelectReasoning(k) ==
    /\ IsMounted(k)
    /\ views' = [views EXCEPT ![k].showCode = FALSE, ![k].showReasoning = TRUE]
    /\ UNCHANGED <<variant, imageBase64, prompt, savedPrompt, userInput,
                   concurrentRequests, loading, hasStartedGenerating,
                   showErrorModal, outputs, requests, replacing, response,
                   extractedCode, clipboard, finalPrompt,
                   handlerVars, selectionVars, earlier>>

\* mutation: the Code toggle without setShowReasoning(false)
SelectCode_KeepsReasoning(k) ==
    /\ IsMounted(k)
    /\ views' = [views EXCEPT ![k].showCode = TRUE]
    /\ UNCHANGED <<variant, imageBase64, prompt, savedPrompt, userInput,
                   concurrentRequests, loading, hasStartedGenerating,
                   showErrorModal, outputs, requests, replacing, response,
                   extractedCode, clipboard, finalPrompt,
                   handlerVars, selectionVars, earlier>>

\* the Code toggle: setShowCode(true); setShowReasoning(false)
SelectCode(k) ==
    /\ IsMounted(k)
    /\ views' = [views EXCEPT ![k].showCode = TRUE, ![k].showReasoning = FALSE]
    /\ UNCHANGED <<variant, imageBase64, prompt, savedPrompt, userInput,
                   concurrentRequests, loading, hasStartedGenerating,
                   showErrorModal, outputs, requests, replacing, response,
                   extractedCode, clipboard, finalPrompt,
                   handlerVars, selectionVars, earlier>>

\* handleCopy: navigator.clipboard.writeText(output.code) and, when that
\* succeeds, setIsCopied(true) and the timer; a failed write is only logged.
\* The write settles before the next event of the page.
handleCopy(k) ==
    /\ IsMounted(k)
    /\ \E written \in BOOLEAN :
          IF written
          THEN /\ clipboard' = outputs[k].code
               /\ views' = [views EXCEPT ![k].isCopied = TRUE]
          ELSE UNCHANGED <<clipboard, views>>
    /\ UNCHANGED <<variant, imageBase64, prompt, savedPrompt, userInput,
                   concurrentRequests, loading, hasStartedGenerating,
                   showErrorModal, outputs, requests, replacing, response,
                   extractedCode, finalPrompt,
                   handlerVars, selectionVars, earlier>>

\* setTimeout(() => setIsCopied(false), 2000) fires on a mounted CodePreview
CopiedTimeout(k) ==
    /\ IsMounted(k)
    /\ views[k].isCopied
    /\ views' = [views EXCEPT ![k].isCopied = FALSE]
    /\ UNCHANGED <<variant, imageBase64, prompt, savedPrompt, userInput,
                   concurrentRequests, loading, hasStartedGenerating,
                   showErrorModal, outputs, requests, replacing, response,
                   extractedCode, clipboard, finalPrompt,
                   handlerVars, selectionVars, earlier>>

\* the Editor is rendered only when showCode
EditorShownChange(k, value) ==
    /\ IsMounted(k)
    /\ views[k].showCode
    /\ EditorChange(k, value)

\* the inputs of this part: one image, one edited prompt, a model that
\* answers with a fenced block or throws
ViewImages == {"data:A"}
ViewPrompts == {"Q"}
ViewOutcomes == {FENCE \o <<NL, "x", NL>> \o FENCE, Throws}

NextView ==
    \/ \E img \in ViewImages : ImageLoaded(img)
    \/ \E value \in ViewPrompts : setPrompt(value)
    \/ \E n \in SliderMin..MaxViewBatch : setConcurrentRequests(n)
    \/ (concurrentRequests <= MaxViewBatch /\ ClickGenerate)
    \/ \E i \in 1..MaxViewBatch : RequestSettlesWith(i, ViewOutcomes)
    \/ \E k \in 1..MaxViewBatch, value \in EditedCodes :
          EditorShownChange(k, value)
    \/ CloseErrorModal
    \/ \E k \in 1..MaxViewBatch : SelectPreview(k)
    \/ \E k \in 1..MaxViewBatch : SelectReasoning(k)
    \/ \E k \in 1..MaxViewBatch : SelectCode(k)
    \/ \E k \in 1..MaxViewBatch : handleCopy(k)
    \/ \E k \in 1..MaxViewBatch : CopiedTimeout(k)

SpecView == Init /\ [][NextView]_vars

\* ------------------------------------------------------------------------
\* The page with the documents of its preview frames
\* ------------------------------------------------------------------------
\* renderPreview(htmlCode): the iframe element with its srcDoc; it has no
\* sandbox attribute
PreviewFrame(htmlCode) == [srcDoc |-> htmlCode, sandbox |-> Absent]

\* An iframe without a sandbox attribute runs the scripts of its document,
\* and its srcDoc document has the origin of the page that holds the frame;
\* a sandbox attribute allows either only with the matching token.
ScriptsRun(frame) ==
    IF frame.sandbox = Absent THEN TRUE
    ELSE "allow-scripts" \in frame.sandbox

SameOrigin(frame) ==
    IF frame.sandbox = Absent THEN TRUE
    ELSE "allow-same-origin" \in frame.sandbox

\* what a script of a frame document stores under 'savedPrompt'
FrameValues == {"S"}

\* const htmlCode = output?.code || ''
HtmlCode(output) == IF output.code = Undefined THEN <<>> ELSE output.code

\* The code of output k, shown in its preview frame, holds a script that
\* calls parent.localStorage.setItem('savedPrompt', value): it runs when the
\* frame runs scripts and reaches the storage of the page when the frame
\* document has the origin of the page.
FrameScriptRuns(k) ==
    /\ IsMounted(k)
    /\ Shown(views[k]) = "preview"
    /\ HtmlCode(outputs[k]) # <<>>
    /\ LET frame == PreviewFrame(HtmlCode(outputs[k]))
       IN  ScriptsRun(frame) /\ SameOrigin(frame)
    /\ \E value \in FrameValues : savedPrompt' = value
    /\ UNCHANGED <<variant, imageBase64, prompt, userInput,
                   concurrentRequests, loading, hasStartedGenerating,
                   showErrorModal, outputs, requests, replacing, response,
                   extractedCode, views, clipboard, finalPrompt,
                   handlerVars, selectionVars, earlier>>

NextFrame ==
    \/ NextView
    \/ \E k \in 1..MaxViewBatch : FrameScriptRuns(k)

SpecFrame == Init /\ [][NextFrame]_vars

\* ------------------------------------------------------------------------
\* The page with the promises of its earlier batches: a batch that failed on
\* its first rejected promise leaves its other promises pending, and they
\* settle while later batches run. At most MaxEarlier such batches are
\* followed, of at most MaxTrackedBatch requests each.
\* ------------------------------------------------------------------------
MaxEarlier == 1
MaxTrackedBatch == 2

\* what a request of these batches meets: a response of the model, or the
\* failure that rejects its promise (the fetch in the proxied variant, the
\* model call in the direct one)
BatchOutcomes(v) ==
    {<<"y">>} \cup (IF v = "proxied" THEN {NetworkError} ELSE {Throws})

\* the number of promises of the batch rs that are pending
PendingCount(rs) == Cardinality({i \in 1..Len(rs) : rs[i].state = "pending"})

\* the batches that still have a pending promise
WithPending(batches) == SelectSeq(batches, LAMBDA rs : PendingCount(rs) > 0)

\* mutation: the Generate button with disabled={!imageBase64}
SubmitBatch_EnabledWhileLoading ==
    /\ imageBase64 # ""
    /\ concurrentRequests <= MaxTrackedBatch
    /\ PendingCount(requests) > 0 => Len(earlier) < MaxEarlier
    /\ generateCode
    /\ earlier' = WithPending(Append(earlier, requests))

\* the Generate button, disabled={!imageBase64 || loading}; the promises of
\* the batch before stay with the browser
SubmitBatch ==
    /\ imageBase64 # ""
    /\ ~ loading
    /\ concurrentRequests <= MaxTrackedBatch
    /\ PendingCount(requests) > 0 => Len(earlier) < MaxEarlier
    /\ generateCode
    /\ earlier' = WithPending(Append(earlier, requests))

\* generateCode of the batch rs after its await, whatever the page shows by
\* then: setOutputs(...) or the catch block, then finally
ResumeOf(rs) ==
    IF PromiseAllState(rs) = "fulfilled"
    THEN /\ outputs' = ResultsToOutputs(PromiseAllValue(rs))
         /\ views' = Mounted(outputs')
         /\ loading' = FALSE
         /\ replacing' = FALSE
         /\ UNCHANGED showErrorModal
    ELSE /\ showErrorModal' = TRUE
         /\ loading' = FALSE
         /\ replacing' = FALSE
         /\ views' = Mounted(outputs)
         /\ UNCHANGED outputs

\* promise i of the earlier batch b settles; the generateCode that awaits the
\* batch resumes when this settles its Promise.all, and not when that had
\* settled before
EarlierRequestSettles(b, i) ==
    /\ b \in 1..Len(earlier)
    /\ i \in 1..Len(earlier[b])
    /\ earlier[b][i].state = "pending"
    /\ \E o \in BatchOutcomes(variant) :
          LET rs == [earlier[b] EXCEPT ![i] =
                           IF variant = "proxied"
                           THEN FetchSettled(earlier[b][i], o)
                           ELSE DirectSettled(earlier[b][i], o)]
          IN  /\ earlier' = WithPending([earlier EXCEPT ![b] = rs])
              /\ IF PromiseAllState(earlier[b]) = "pending"
                    /\ PromiseAllState(rs) # "pending"
                 THEN ResumeOf(rs)
                 ELSE UNCHANGED <<outputs, loading, showErrorModal,
                                  replacing, views>>
    /\ UNCHANGED <<variant, imageBase64, prompt, savedPrompt, userInput,
                   concurrentRequests, hasStartedGenerating, requests,
                   response, extractedCode, clipboard, finalPrompt,
                   handlerVars, selectionVars>>

NextBatches ==
    \/ \E img \in ViewImages : ImageLoaded(img)
    \/ \E n \in SliderMin..MaxTrackedBatch : setConcurrentRequests(n)
    \/ SubmitBatch
    \/ \E i \in 1..MaxTrackedBatch :
          RequestSettlesWith(i, BatchOutcomes(variant))
    \/ \E b \in 1..MaxEarlier, i \in 1..MaxTrackedBatch :
          EarlierRequestSettles(b, i)
    \/ CloseErrorModal

SpecBatches == Init /\ [][NextBatches]_vars

\* ------------------------------------------------------------------------
\* The selection of the image: every dropped file and every clicked sample
\* starts a chain of callbacks (fetch of a sample, FileReader, img.onload)
\* that ends in setImageBase64; the chains of several selections run side by
\* side. At most MaxSelections selections are started.
\* ------------------------------------------------------------------------
MaxSelections == 3

\* what canvas.toDataURL() gives for the dropped files
DroppedFiles == Images

SampleNames == {"clock.png", "tree.png"}

\* what canvas.toDataURL() gives for the sample imageName
SampleImage(imageName) ==
    IF imageName = "clock.png" THEN "data:clock" ELSE "data:tree"

\* reader.readAsDataURL(file) is started
onDrop(file) ==
    /\ Len(imageLoads) < MaxSelections
    /\ imageLoads' = Append(imageLoads,
                            [kind |-> "drop", image |-> file, step |-> "read"])
    /\ UNCHANGED <<appVars, variant, response, extractedCode, finalPrompt,
                   handlerVars, selectedSample, earlier>>

\* setSelectedSample(imageName), and the fetch of the sample is started
handleSampleSelect(imageName) ==
    /\ Len(imageLoads) < MaxSelections
    /\ selectedSample' = imageName
    /\ imageLoads' = Append(imageLoads,
                            [kind |-> "sample", image |-> SampleImage(imageName),
                             step |-> "fetch"])
    /\ UNCHANGED <<appVars, variant, response, extractedCode, finalPrompt,
                   handlerVars, earlier>>

\* await fetch(...) and response.blob() of selection n resolve:
\* reader.readAsDataURL(blob) is started
FetchResolves(n) ==
    /\ n \in 1..Len(imageLoads)
    /\ imageLoads[n].step = "fetch"
    /\ imageLoads' = [imageLoads EXCEPT ![n].step = "read"]
    /\ UNCHANGED <<appVars, variant, response, extractedCode, finalPrompt,
                   handlerVars, selectedSample, earlier>>

\* the fetch of selection n rejects: the catch block logs the error
FetchFails(n) ==
    /\ n \in 1..Len(imageLoads)
    /\ imageLoads[n].step = "fetch"
    /\ imageLoads' = [imageLoads EXCEPT ![n].step = "failed"]
    /\ UNCHANGED <<appVars, variant, response, extractedCode, finalPrompt,
                   handlerVars, selectedSample, earlier>>

\* reader.onload of selection n: img.src is set
ReaderLoads(n) ==
    /\ n \in 1..Len(imageLoads)
    /\ imageLoads[n].step = "read"
    /\ imageLoads' = [imageLoads EXCEPT ![n].step = "decode"]
    /\ UNCHANGED <<appVars, variant, response, extractedCode, finalPrompt,
                   handlerVars, selectedSample, earlier>>

\* img.onload of selection n: setImageBase64(canvas.toDataURL())
ImgLoads(n) ==
    /\ n \in 1..Len(imageLoads)
    /\ imageLoads[n].step = "decode"
    /\ imageLoads' = [imageLoads EXCEPT ![n].step = "done"]
    /\ imageBase64' = imageLoads[n].image
    /\ UNCHANGED <<variant, prompt, savedPrompt, userInput, concurrentRequests,
                   loading, hasStartedGenerating, showErrorModal, outputs,
                   requests, replacing, response, extractedCode,
                   views, clipboard, finalPrompt,
                   handlerVars, selectedSample, earlier>>

NextImage ==
    \/ \E file \in DroppedFiles : onDrop(file)
    \/ \E imageName \in SampleNames : handleSampleSelect(imageName)
    \/ \E n \in 1..MaxSelections : FetchResolves(n)
    \/ \E n \in 1..MaxSelections : FetchFails(n)
    \/ \E n \in 1..MaxSelections : ReaderLoads(n)
    \/ \E n \in 1..MaxSelections : ImgLoads(n)

SpecImage == Init /\ [][NextImage]_vars

\* ------------------------------------------------------------------------
\* The page across sessions: the browser loads the page anew
\* ------------------------------------------------------------------------
\* Every useState starts over and the promises of the old page are gone; the
\* mount effect reads localStorage.getItem('savedPrompt'), or sets and stores
\* the default prompt when there is none. Local storage and the clipboard
\* outlive the page.
Reload ==
    /\ prompt' = (IF savedPrompt # "" THEN savedPrompt
                  ELSE DefaultPrompt(variant))
    /\ savedPrompt' = prompt'
    /\ imageBase64' = ""
    /\ userInput' = ""
    /\ concurrentRequests' = InitialConcurrentRequests
    /\ loading' = FALSE
    /\ hasStartedGenerating' = FALSE
    /\ showErrorModal' = FALSE
    /\ outputs' = <<>>
    /\ requests' = <<>>
    /\ replacing' = FALSE
    /\ views' = <<>>
    /\ imageLoads' = <<>>
    /\ selectedSample' = Null
    /\ earlier' = <<>>
    /\ UNCHANGED <<variant, clipboard, response, extractedCode, finalPrompt,
                   handlerVars>>

NextReload == NextLive \/ Reload

SpecReload == Init /\ [][NextReload]_vars

\* ------------------------------------------------------------------------
\* The extractor on its own: one response text, one run of the extractor
\* ------------------------------------------------------------------------
InitExtract ==
    /\ variant \in Variants
    /\ response \in Texts
    /\ extractedCode = NotRun
    /\ imageBase64 = ""
    /\ prompt = DefaultPrompt(variant)
    /\ savedPrompt = prompt
    /\ userInput = ""
    /\ concurrentRequests = InitialConcurrentRequests
    /\ loading = FALSE
    /\ hasStartedGenerating = FALSE
    /\ showErrorModal = FALSE
    /\ outputs = <<>>
    /\ requests = <<>>
    /\ replacing = FALSE
    /\ views = <<>>
    /\ clipboard = NoText
    /\ finalPrompt = NotRun
    /\ req = NoRequest
    /\ res = <<>>
    /\ imageLoads = <<>>
    /\ selectedSample = Null
    /\ earlier = <<>>

\* const extractedCode = match ? match[1].trim() : ... ; on the response
RunExtractor ==
    /\ extractedCode = NotRun
    /\ extractedCode' = generateCodeFromImage(variant, response).code
    /\ UNCHANGED <<variant, response, finalPrompt>>
    /\ UNCHANGED <<appVars, handlerVars, selectionVars, earlier>>

NextExtract == RunExtractor

SpecExtract == InitExtract /\ [][NextExtract]_vars

\* ------------------------------------------------------------------------
\* The text sent to the model: one prompt, one user text (both spelled out as
\* texts here), one run of the first statement of generateCodeFromImage
\* ------------------------------------------------------------------------
\* the text between prompt and user input in the template literal
UserInputSeparator ==
    <<NL, NL, "U", "s", "e", "r", SP, "i", "n", "p", "u", "t", ":", SP>>

\* mutation: the user text is tested without trim()
FinalPrompt_NoTrim(p, u) ==
    IF u # <<>> THEN p \o UserInputSeparator \o u ELSE p

\* const finalPrompt = userInput.trim()
\*     ? (prompt, "\n\nUser input: ", userInput in one template literal)
\*     : prompt
FinalPrompt(p, u) ==
    IF Trim(u) # <<>> THEN p \o UserInputSeparator \o u ELSE p

PromptTexts == {<<>>, <<"p">>, <<"p", NL>>, <<"p", SP, "q">>}

UserTexts ==
    {<<>>, <<SP>>, <<NL>>, <<SP, NL, SP>>, <<"u">>, <<SP, "u">>, <<"u", NL>>,
     <<SP, "u", NL>>, <<"u", SP, "v">>, <<NL, NL, "U">>}

InitFinalPrompt ==
    /\ variant \in Variants
    /\ prompt \in PromptTexts
    /\ userInput \in UserTexts
    /\ finalPrompt = NotRun
    /\ savedPrompt = prompt
    /\ imageBase64 = "data:A"
    /\ concurrentRequests = InitialConcurrentRequests
    /\ loading = FALSE
    /\ hasStartedGenerating = FALSE
    /\ showErrorModal = FALSE
    /\ outputs = <<>>
    /\ requests = <<>>
    /\ replacing = FALSE
    /\ views = <<>>
    /\ clipboard = NoText
    /\ response = <<>>
    /\ extractedCode = NotRun
    /\ req = NoRequest
    /\ res = <<>>
    /\ imageLoads = <<>>
    /\ selectedSample = Null
    /\ earlier = <<>>

BuildFinalPrompt ==
    /\ finalPrompt = NotRun
    /\ finalPrompt' = FinalPrompt(prompt, userInput)
    /\ UNCHANGED <<variant, response, extractedCode>>
    /\ UNCHANGED <<appVars, handlerVars, selectionVars, earlier>>

NextFinalPrompt == BuildFinalPrompt

SpecFinalPrompt == InitFinalPrompt /\ [][NextFinalPrompt]_vars

\* ------------------------------------------------------------------------
\* The /api/generate handler on its own: one request of any client, one call
\* of the handler; response is what the model call does if it is made
\* ------------------------------------------------------------------------
Methods == {"GET", "POST", "PUT"}

RequestBodies ==
    [imageBase64 : {Absent, "", "data:A"},
     prompt : {Absent, "", "Q"},
     userInput : {Absent, "", "u"}]

InitHandler ==
    /\ variant = "proxied"
    /\ req \in [method : Methods, body : RequestBodies]
    /\ res = <<>>
    /\ response \in ModelOutcomes
    /\ extractedCode = NotRun
    /\ finalPrompt = NotRun
    /\ imageBase64 = ""
    /\ prompt = DefaultPrompt(variant)
    /\ savedPrompt = prompt
    /\ userInput = ""
    /\ concurrentRequests = InitialConcurrentRequests
    /\ loading = FALSE
    /\ hasStartedGenerating = FALSE
    /\ showErrorModal = FALSE
    /\ outputs = <<>>
    /\ requests = <<>>
    /\ replacing = FALSE
    /\ views = <<>>
    /\ clipboard = NoText
    /\ imageLoads = <<>>
    /\ selectedSample = Null
    /\ earlier = <<>>

\* the handler runs on the request and sends its answer
HandleRequest ==
    /\ res = <<>>
    /\ res' = Append(res, handler(req.method, req.body, response))
    /\ UNCHANGED <<variant, req, response, extractedCode, finalPrompt>>
    /\ UNCHANGED <<appVars, selectionVars, earlier>>

NextHandler == HandleRequest

SpecHandler == InitHandler /\ [][NextHandler]_vars

\* ------------------------------------------------------------------------
\* Properties
\* ------------------------------------------------------------------------
\* a request that did not produce a generation: its promise was rejected, or
\* the handler answered it with an error status
RequestFailed(r) == r.state = "rejected" \/ r.status \in {400, 405, 500}
RequestSucceeded(r) == r.state = "fulfilled" /\ ~ RequestFailed(r)
Pending(rs) == {i \in 1..Len(rs) : rs[i].state = "pending"}

\* C1: when the batch resolves and one of its requests has failed (rejected
\* promise or error status of the handler), the error dialog is opened and
\* the outputs stay empty.
C1_FailedRequestFailsBatch ==
    [][(loading /\ ~ loading'
        /\ \E i \in 1..Len(requests') : RequestFailed(requests'[i]))
       => (showErrorModal' /\ outputs' = <<>>)]_vars

\* C2: when the batch resolves with all N requests succeeded, outputs has N
\* items and item i (counted from 1) has id i and the code and fullResponse of
\* the i-th request, whatever the order in which the requests settled.
C2_OutputsInSubmissionOrder ==
    [][(loading /\ ~ loading'
        /\ \A i \in 1..Len(requests') : RequestSucceeded(requests'[i]))
       => /\ Len(outputs') = Len(requests')
          /\ \A i \in 1..Len(requests') :
                /\ outputs'[i].id = i
                /\ outputs'[i].code = requests'[i].result.code
                /\ outputs'[i].fullResponse = requests'[i].result.fullResponse]_vars

\* a resolved batch of at least two requests with different responses, shown
\* in submission order
C2_Witness ==
    /\ ~ loading
    /\ Len(requests) >= 2
    /\ \A i \in 1..Len(requests) : RequestSucceeded(requests[i])
    /\ requests[1].result.fullResponse # requests[2].result.fullResponse
    /\ Len(outputs) = Len(requests)
    /\ \A i \in 1..Len(outputs) :
          /\ outputs[i].id = i
          /\ outputs[i].fullResponse = requests[i].result.fullResponse

\* C3: on a text with exactly one fenced block the extractor returns the
\* trimmed body of the block, in both variants and for any language tag.
C3_OneBlockBody ==
    extractedCode # NotRun =>
        \A p \in OneBlockParts :
            response = OneBlockText(p) => extractedCode = Trim(p.block.body)

\* C4 as claimed: on a text without a fenced block the extractor returns the
\* response text unmodified, in both variants.
C4_FallbackIsResponse ==
    (extractedCode # NotRun /\ response \in NoBlockTexts)
        => extractedCode = response

\* C4 as amended: on a text without a fenced block the direct variant returns
\* the response text unmodified and the proxied variant the empty string.
C4_FallbackPerVariant ==
    (extractedCode # NotRun /\ response \in NoBlockTexts)
        => extractedCode = (IF variant = "direct" THEN response ELSE <<>>)

\* the proxied extractor has run on an opening fence that is never closed
C4_Witness ==
    /\ variant = "proxied"
    /\ response = FENCE \o HTML \o <<NL, "x">>
    /\ extractedCode = <<>>

\* C5: on a text with two fenced blocks the extractor returns the trimmed body
\* of the first block only.
C5_FirstBlockBody ==
    extractedCode # NotRun =>
        \A p \in TwoBlockParts :
            response = TwoBlockText(p) => extractedCode = Trim(p.block.body)

\* C6: the language tag of the fence is ignored: the extracted code is the
\* code extracted from the same text with the tag removed.
C6_TagIgnored ==
    extractedCode # NotRun =>
        \A p \in OneBlockParts :
            response = OneBlockText(p) =>
                extractedCode =
                    ExtractCode(variant, OneBlockText([p EXCEPT !.block.tag = <<>>]))

\* C7: no request is issued with an empty image or an empty prompt.
C7_NoRequestWithoutInputs ==
    \A i \in 1..Len(requests) :
        requests[i].imageBase64 # "" /\ requests[i].prompt # ""

\* C8: handleCodeChange(id, newCode) on the current outputs keeps their number
\* and order, every id and every fullResponse, sets the code of the outputs
\* whose id is id and keeps the code of all others (all of them when no
\* output has that id).
C8_CodeChangeFrame ==
    \A id \in 0..(Len(outputs) + 1), newCode \in EditedCodes \cup {<<>>} :
        LET new == CodeChanged(outputs, id, newCode)
        IN  /\ Len(new) = Len(outputs)
            /\ \A i \in 1..Len(outputs) :
                  /\ new[i].id = outputs[i].id
                  /\ new[i].fullResponse = outputs[i].fullResponse
                  /\ new[i].code =
                        (IF outputs[i].id = id THEN newCode ELSE outputs[i].code)
            /\ Cardinality({i \in 1..Len(outputs) : outputs[i].id = id}) <= 1

\* one output was edited, another still has the code of its request
C8_Witness ==
    /\ ~ loading
    /\ Len(outputs) >= 2
    /\ \E k, j \in 1..Len(outputs) :
          /\ k # j
          /\ outputs[k].code \in EditedCodes
          /\ outputs[k].code # requests[k].result.code
          /\ outputs[k].fullResponse = requests[k].result.fullResponse
          /\ outputs[j].code = requests[j].result.code
          /\ outputs[j].code \notin EditedCodes

\* C9 as claimed: generateCode leaves the loading state only when none of the
\* requests of its batch is outstanding.
C9_NothingOutstandingAfterLoading ==
    ~ loading => Pending(requests) = {}

\* C9 as amended: a result set is published only when no request of the batch
\* is outstanding; the loading state is left with requests outstanding only
\* when a request of the batch was rejected.
C9_OutstandingOnlyAfterRejection ==
    /\ outputs # <<>> => Pending(requests) = {}
    /\ (~ loading /\ Pending(requests) # {})
          => \E i \in 1..Len(requests) : requests[i].state = "rejected"

\* a batch of at least two requests resolved with results, none outstanding
C9_Witness ==
    /\ hasStartedGenerating
    /\ ~ loading
    /\ Len(requests) >= 2
    /\ Len(outputs) = Len(requests)
    /\ Pending(requests) = {}

\* C10 as claimed: the outputs of the previous batch are still the outputs
\* while the new batch is outstanding.
C10_KeptUntilResolution ==
    [][(~ loading /\ loading') => outputs' = outputs]_vars

\* C10 as amended: the outputs are empty while a batch is outstanding (the
\* previous results are discarded at submission), and non-empty outputs are
\* the results of the batch submitted last.
C10_DiscardedAtSubmission ==
    /\ loading => outputs = <<>>
    /\ outputs # <<>> =>
          /\ Len(outputs) = Len(requests)
          /\ \A i \in 1..Len(outputs) :
                /\ outputs[i].id = i
                /\ outputs[i].fullResponse = requests[i].result.fullResponse

\* a batch submitted over the results of an earlier batch is outstanding
C10_Witness ==
    /\ loading
    /\ replacing
    /\ outputs = <<>>
    /\ Pending(requests) # {}

\* the inputs a request carries
Carried(r) == <<r.imageBase64, r.prompt, r.userInput>>

\* C11: every request of a batch carries the image, prompt and user text that
\* were current when generateCode was invoked; while the batch is outstanding
\* no step (an edit of the image, the prompt or the slider included) changes
\* what its requests carry or how many they are; a batch that resolves with
\* results gives one result per request; and the steps of the batch itself
\* (a request settles, generateCode resumes) leave image, prompt and user text
\* as they are.
C11_InputsReadAtSubmission ==
    [][/\ (~ loading /\ loading')
            => /\ Len(requests') = concurrentRequests
               /\ \A i \in 1..Len(requests') :
                     Carried(requests'[i]) = <<imageBase64, prompt, userInput>>
       /\ loading
            => /\ Len(requests') = Len(requests)
               /\ \A i \in 1..Len(requests) :
                     Carried(requests'[i]) = Carried(requests[i])
       /\ (loading /\ ~ loading' /\ outputs' # <<>>)
            => Len(outputs') = Len(requests)
       /\ (loading /\ requests' # requests)
            => UNCHANGED <<imageBase64, prompt, userInput>>]_vars

\* a batch is outstanding whose requests carry an image and a prompt that are
\* no longer the current ones, and the slider no longer shows their number
C11_Witness ==
    /\ loading
    /\ Pending(requests) # {}
    /\ Len(requests) >= 2
    /\ Len(requests) # concurrentRequests
    /\ requests[1].imageBase64 # imageBase64
    /\ requests[1].prompt # prompt
    /\ \A i \in 1..Len(requests) : Carried(requests[i]) = Carried(requests[1])


\* C13: in every reachable state the ids of the outputs are pairwise distinct
\* and are exactly the numbers 1..Len(outputs).
C13_IdsAreOneToN ==
    /\ \A i, j \in 1..Len(outputs) : i # j => outputs[i].id # outputs[j].id
    /\ {outputs[i].id : i \in 1..Len(outputs)} = 1..Len(outputs)

\* the results of a batch of at least two requests, every one of them edited
C13_Witness ==
    /\ ~ loading
    /\ Len(outputs) >= 2
    /\ \A i \in 1..Len(outputs) : outputs[i].code \in EditedCodes
    /\ {outputs[i].id : i \in 1..Len(outputs)} = 1..Len(outputs)

\* C14: the concurrency setting is 5 initially and always an integer in
\* 1..10; a submission issues exactly as many requests as the setting holds
\* at that moment; the requests of one batch carry the same image, prompt and
\* user text.
C14_RequestCount ==
    /\ concurrentRequests = 5
    /\ [](/\ concurrentRequests \in 1..10
          /\ \A i, j \in 1..Len(requests) :
                Carried(requests[i]) = Carried(requests[j]))
    /\ [][(~ loading /\ loading')
            => /\ Len(requests') = concurrentRequests
               /\ Pending(requests') = 1..concurrentRequests]_vars

\* a batch of as many requests as the setting holds, none settled yet, after
\* the setting was moved away from its initial value
C14_Witness ==
    /\ loading
    /\ concurrentRequests \in 2..10
    /\ concurrentRequests # InitialConcurrentRequests
    /\ Len(requests) = concurrentRequests
    /\ Pending(requests) = 1..concurrentRequests


\* a submitted batch has not yet resolved: the promise of Promise.all is
\* neither fulfilled nor rejected
Unresolved == requests # <<>> /\ PromiseAllState(requests) = "pending"

\* C12: provided every issued request completes, every submitted batch leaves
\* the loading state; loading is true in exactly the states where a submitted
\* batch has not yet resolved; and once a batch has resolved, whatever its
\* outcome, a new batch can be submitted (an image is present).
C12_BatchesLeaveLoading ==
    /\ [](loading <=> Unresolved)
    /\ []((hasStartedGenerating /\ ~ loading)
             => (imageBase64 # "" /\ ENABLED ClickGenerate))
    /\ (loading ~> ~ loading)

\* a second batch was submitted after a first batch failed (the error dialog
\* of the first is still open)
C12_Witness ==
    /\ loading
    /\ showErrorModal
    /\ Unresolved
    /\ Pending(requests) = 1..Len(requests)


\* C20: no request is retried: every slot of a batch had its request issued
\* exactly once; in the proxied variant exactly one model call was made for a
\* request the handler accepted (status 200 or 500) and none for any other;
\* in the direct variant exactly one per request; a request becomes pending
\* only in a submission step, and a settled request of the batch never changes
\* again until the next submission.
C20_NoAutomaticRetry ==
    /\ [](\A i \in 1..Len(requests) :
             /\ requests[i].issued = 1
             /\ requests[i].modelCalls =
                   (IF variant = "direct" \/ requests[i].status \in {200, 500}
                    THEN 1 ELSE 0))
    /\ [][\/ (~ loading /\ loading')
          \/ /\ Len(requests') = Len(requests)
             /\ \A i \in 1..Len(requests) :
                   requests[i].state # "pending" => requests'[i] = requests[i]]_vars

\* a batch of the proxied variant failed on a rejected fetch after the model
\* call of another of its requests had thrown; nothing was issued again
C20_Witness ==
    /\ variant = "proxied"
    /\ ~ loading
    /\ showErrorModal
    /\ \E i, j \in 1..Len(requests) :
          /\ requests[i].state = "rejected"
          /\ requests[i].modelCalls = 0
          /\ requests[j].status = 500
          /\ requests[j].modelCalls = 1
    /\ \A i \in 1..Len(requests) : requests[i].issued = 1


C18_UserTextAppended ==
    finalPrompt # NotRun =>
        finalPrompt =
            (IF \E i \in 1..Len(userInput) : userInput[i] \notin WhiteSpace
             THEN prompt
                  \o <<NL, NL, "U", "s", "e", "r", SP, "i", "n", "p", "u", "t",
                       ":", SP>>
                  \o userInput
             ELSE prompt)

\* a user text with white space around its one letter was appended as given
C18_Witness ==
    /\ prompt = <<"p", NL>>
    /\ userInput = <<SP, "u", NL>>
    /\ Len(finalPrompt) = Len(prompt) + 14 + Len(userInput)
    /\ SubSeq(finalPrompt, Len(finalPrompt) - 2, Len(finalPrompt)) = userInput


\* C15: a step that is not part of a generation run (neither a submission nor
\* a resolution) keeps the number of outputs and every fullResponse, and when
\* it changes the code of an output it is an edit in the editor of that
\* output: the editor is shown and the step is no view toggle, copy, prompt,
\* image or slider change and does not close the error dialog.
C15_EditedCodeKept ==
    [][(loading' = loading)
         => /\ Len(outputs') = Len(outputs)
            /\ \A k \in 1..Len(outputs) :
                  /\ outputs'[k].fullResponse = outputs[k].fullResponse
                  /\ outputs'[k].code # outputs[k].code
                       => /\ views[k].showCode
                          /\ outputs'[k].code \in EditedCodes
                          /\ UNCHANGED <<views, clipboard, prompt, savedPrompt,
                                         imageBase64, concurrentRequests,
                                         showErrorModal>>]_vars

\* an output was edited; afterwards its preview was selected, its code
\* copied, the prompt edited and the slider moved; it still has the edited
\* code and the fullResponse of its request
C15_Witness ==
    /\ ~ loading
    /\ prompt = "Q"
    /\ concurrentRequests # Len(requests)
    /\ \E k \in 1..Len(outputs) :
          /\ outputs[k].code \in EditedCodes
          /\ outputs[k].code # requests[k].result.code
          /\ outputs[k].fullResponse = requests[k].result.fullResponse
          /\ outputs[k].fullResponse # Undefined
          /\ Shown(views[k]) = "preview"
          /\ views[k].isCopied
          /\ clipboard = outputs[k].code

\* C16 as claimed: every result presents exactly one of the four views
\* (rendered output, reasoning, editable code, copy action), and showCode and
\* showReasoning are never both true.
C16_OneOfFourViews ==
    \A k \in 1..Len(views) :
        /\ Presented(views[k]) \subseteq {"preview", "reasoning", "code", "copy"}
        /\ Cardinality(Presented(views[k])) = 1
        /\ ~ (views[k].showCode /\ views[k].showReasoning)

\* C16 as amended: every result presents exactly one of the three views
\* (rendered output, reasoning, editable code), the toggle rendered as
\* selected is the one of that view, and the copy action is presented along
\* with it; showCode and showReasoning are never both true; a step that
\* changes the view state of one mounted result leaves that of every other
\* result unchanged, and a copy leaves the selected views unchanged.
C16_OneOfThreeViews ==
    /\ [](\A k \in 1..Len(views) :
             /\ Selected(views[k]) = {Shown(views[k])}
             /\ Presented(views[k]) = {Shown(views[k]), "copy"}
             /\ ~ (views[k].showCode /\ views[k].showReasoning))
    /\ [][(views # <<>> /\ views' # <<>>)
            => /\ Len(views') = Len(views)
               /\ \A k, j \in 1..Len(views) :
                     (views'[k] # views[k] /\ j # k) => views'[j] = views[j]
               /\ clipboard' # clipboard
                     => \A k \in 1..Len(views) :
                           Shown(views'[k]) = Shown(views[k])]_vars

\* two results, one showing its reasoning with the copy just made, the other
\* its editor
C16_Witness ==
    /\ Len(views) >= 2
    /\ \E k, j \in 1..Len(views) :
          /\ Shown(views[k]) = "reasoning"
          /\ views[k].isCopied
          /\ clipboard = outputs[k].code
          /\ Shown(views[j]) = "code"
          /\ ~ views[j].isCopied


\* C19: the code of a result runs isolated from the host page and cannot
\* change its state: the local storage of the page is written by the page
\* alone, so a step that changes the stored prompt stores the prompt of the
\* page.
C19_CodeCannotChangeHostState ==
    [][savedPrompt' # savedPrompt => savedPrompt' = prompt']_vars


\* the responses of the model in which the expression of the variant finds
\* no fenced block
NoBlockProxied == {t \in ModelResponses : RegexExec("proxied", t) = <<>>}
NoBlockDirect == {t \in ModelResponses : RegexExec("direct", t) = <<>>}

\* the requests for which the model returned a text without a fenced block
NoBlock(rs) ==
    {i \in 1..Len(rs) :
        IF variant = "proxied" THEN rs[i].modelText \in NoBlockProxied
        ELSE rs[i].modelText \in NoBlockDirect}

\* C21: a request for which the model returned a text without a fenced block
\* has succeeded (a fulfilled promise; status 200 in the proxied variant) with
\* the text as fullResponse and the fallback value of its variant as code; a
\* batch in which every request got such a text resolves with one output per
\* request, holding that fullResponse and code, and the step does not open the
\* error dialog.
C21_NoBlockIsNoError ==
    /\ [](\A i \in NoBlock(requests) :
             /\ requests[i].state = "fulfilled"
             /\ variant = "proxied" => requests[i].status = 200
             /\ requests[i].result.fullResponse = requests[i].modelText
             /\ requests[i].result.code =
                   (IF variant = "direct" THEN requests[i].modelText
                    ELSE <<>>))
    /\ [][(loading /\ NoBlock(requests') = 1..Len(requests'))
            => /\ ~ loading'
               /\ showErrorModal' = showErrorModal
               /\ Len(outputs') = Len(requests')
               /\ \A i \in 1..Len(requests') :
                     /\ outputs'[i].fullResponse = requests'[i].modelText
                     /\ outputs'[i].code =
                           (IF variant = "direct" THEN requests'[i].modelText
                            ELSE <<>>)]_vars

\* a batch of at least two requests, each answered without a fenced block,
\* has resolved into outputs and the error dialog is closed
C21_Witness ==
    /\ ~ loading
    /\ ~ showErrorModal
    /\ Len(requests) >= 2
    /\ NoBlock(requests) = 1..Len(requests)
    /\ Len(outputs) = Len(requests)
    /\ \A i \in 1..Len(outputs) :
          outputs[i].fullResponse = requests[i].modelText


C23_OneBatchAwaited ==
    /\ [](/\ \A b \in 1..Len(earlier) : PromiseAllState(earlier[b]) # "pending"
          /\ loading => PromiseAllState(requests) = "pending"
          /\ outputs # <<>> =>
                /\ Len(outputs) = Len(requests)
                /\ \A i \in 1..Len(outputs) :
                      /\ outputs[i].id = i
                      /\ outputs[i].fullResponse =
                            requests[i].result.fullResponse)
    /\ [][/\ (requests' # requests /\ PendingCount(requests') = Len(requests'))
               => (~ loading /\ loading' /\ imageBase64 # "")
          /\ (earlier' # earlier /\ requests' = requests)
               => UNCHANGED <<outputs, loading, showErrorModal>>]_vars

\* the batch submitted last has resolved into outputs while a promise of the
\* failed batch before it is still pending
C23_Witness ==
    /\ ~ loading
    /\ outputs # <<>>
    /\ Len(earlier) = 1
    /\ PendingCount(earlier[1]) > 0
    /\ PromiseAllState(earlier[1]) = "rejected"
    /\ PromiseAllState(requests) = "fulfilled"


\* C24: once every started selection has run to its setImageBase64,
\* imageBase64 is the image of the selection that was started last, whatever
\* the order in which the selections complete.
C24_LastSelectionWins ==
    (/\ imageLoads # <<>>
     /\ \A n \in 1..Len(imageLoads) : imageLoads[n].step = "done")
        => imageBase64 = imageLoads[Len(imageLoads)].image


====
